---- MODULE Spec2Model ----
(***************************************************************************)
(* The RingLink packet codec: Packet::new / Packet::with_id, the header    *)
(* and body encoders and decoders, the length operations and the shared    *)
(* PACKET_ID sequence counter.                                             *)
(*                                                                         *)
(* TLC integers are 32 bits wide, so a u32 is held as two and a u64 as     *)
(* four 16-bit limbs, most significant limb first.  A usize is a natural   *)
(* number; converting a decoded length to usize saturates at UsizeCap,     *)
(* which is larger than every buffer of the model, so that every           *)
(* comparison `remaining >= len` has the outcome it has in the code.       *)
(***************************************************************************)
EXTENDS Integers, Sequences, FiniteSets, TLC

\* ------------------------------------------------------------- bounds
\* DeviceID::LENGTH (ringlink_identity, an external crate)
DeviceIDLength == 2
\* longest variable-length field (data, public_key, signature, body)
MaxLen == 1
\* calls of Packet::new
MaxCalls == 2
\* trailing bytes appended after an encoded packet
MaxTrail == 1
\* concurrent callers of Packet::new
NumThreads == 2
\* bytes of a raw received buffer beyond the fixed header
MaxRawBody == 10
\* saturation point of a length converted to usize
UsizeCap == 16777216

\* ------------------------------------------------------------- constants
DEFAULT_TTL == 7
KEY_EXCHANGE_REQUEST == 1
KEY_EXCHANGE_REPLY == 2

LimbBase == 256 * 256

\* ------------------------------------------------------------- bit operations
RECURSIVE BitOr(_, _)
BitOr(a, b) ==
  IF a = 0 THEN b
  ELSE IF b = 0 THEN a
  ELSE (IF a % 2 = 1 \/ b % 2 = 1 THEN 1 ELSE 0) + 2 * BitOr(a \div 2, b \div 2)

RECURSIVE BitAnd(_, _)
BitAnd(a, b) ==
  IF a = 0 \/ b = 0 THEN 0
  ELSE (IF a % 2 = 1 /\ b % 2 = 1 THEN 1 ELSE 0) + 2 * BitAnd(a \div 2, b \div 2)

\* u64 | u64, limb by limb
U64Or(x, y) == [i \in 1..4 |-> BitOr(x[i], y[i])]

\* (v as u64) << 61 for a value below 2^16: the low three bits of v land in
\* the top three bits of the most significant limb, the rest is shifted out
U64Shl61(v) == <<(v * 8192) % LimbBase, 0, 0, 0>>

\* x >> 61, as a number 0..7
U64Shr61(x) == x[1] \div 8192

\* u64 wrapping addition of a small number
U64WrappingAdd(x, n) ==
  LET s4 == x[4] + n
      s3 == x[3] + (s4 \div LimbBase)
      s2 == x[2] + (s3 \div LimbBase)
      s1 == x[1] + (s2 \div LimbBase)
  IN  <<s1 % LimbBase, s2 % LimbBase, s3 % LimbBase, s4 % LimbBase>>

\* `len as u64` and `len as u32` of a usize below 2^31
UsizeAsU64(n) == <<0, 0, (n \div LimbBase) % LimbBase, n % LimbBase>>
UsizeAsU32(n) == <<(n \div LimbBase) % LimbBase, n % LimbBase>>

\* `x as usize` of a u32 or u64, saturating at UsizeCap
RECURSIVE LimbsValue(_, _)
LimbsValue(w, acc) ==
  IF w = <<>> THEN acc
  ELSE IF acc >= UsizeCap \div LimbBase THEN UsizeCap
  ELSE LimbsValue(Tail(w), acc * LimbBase + Head(w))

AsUsize(w) == LimbsValue(w, 0)

\* ------------------------------------------------------------- BufMut
LimbBytes(l) == <<l \div 256, l % 256>>

put_u8(buf, v) == Append(buf, v)
put_u32(buf, w) == buf \o LimbBytes(w[1]) \o LimbBytes(w[2])
put_u64(buf, w) ==
  buf \o LimbBytes(w[1]) \o LimbBytes(w[2]) \o LimbBytes(w[3]) \o LimbBytes(w[4])
put(buf, bytes) == buf \o bytes

\* ------------------------------------------------------------- Buf
\* A cursor over received bytes.  A read of n bytes with fewer than n
\* remaining panics in the bytes crate: the cursor records it.
Cursor(data) == [data |-> data, pos |-> 0, panic |-> FALSE]

remaining(c) == Len(c.data) - c.pos

advance(c, n) ==
  IF remaining(c) < n
  THEN [c EXCEPT !.panic = TRUE, !.pos = Len(c.data)]
  ELSE [c EXCEPT !.pos = @ + n]

chunk(c, n) ==
  IF remaining(c) < n THEN [i \in 1..n |-> 0]
  ELSE SubSeq(c.data, c.pos + 1, c.pos + n)

get_u8(c) == [val |-> chunk(c, 1)[1], cur |-> advance(c, 1)]

get_u32(c) ==
  LET b == chunk(c, 4)
  IN  [val |-> <<b[1] * 256 + b[2], b[3] * 256 + b[4]>>, cur |-> advance(c, 4)]

get_u64(c) ==
  LET b == chunk(c, 8)
  IN  [val |-> <<b[1] * 256 + b[2], b[3] * 256 + b[4],
                 b[5] * 256 + b[6], b[7] * 256 + b[8]>>,
       cur |-> advance(c, 8)]

copy_to_slice(c, n) == [val |-> chunk(c, n), cur |-> advance(c, n)]

copy_to_bytes(c, n) ==
  IF remaining(c) < n THEN [val |-> <<>>, cur |-> advance(c, n)]
  ELSE [val |-> chunk(c, n), cur |-> advance(c, n)]

\* ------------------------------------------------------------- results
NoHeader ==
  [packet_id |-> <<0, 0, 0, 0>>, kind |-> "None", from |-> <<>>, to |-> <<>>,
   flags |-> <<0, 0>>]
NoBody == [variant |-> "None"]
NoPacket == [header |-> NoHeader, body |-> NoBody]

Ok(v, c) == [status |-> "Ok", value |-> v, cur |-> c]
Err(e, c) == [status |-> e, value |-> NoBody, cur |-> c]

\* ------------------------------------------------------------- PacketKind
KindByte(kind) ==
  CASE kind = "Data" -> 1
    [] kind = "KeyExchange" -> 16
    [] kind = "P2P" -> 6

PacketKind_try_from_any(value) ==
  CASE value = 1 -> [ok |-> TRUE, kind |-> "Data"]
    [] value = 16 -> [ok |-> TRUE, kind |-> "KeyExchange"]
    [] value = 6 -> [ok |-> TRUE, kind |-> "P2P"]
    [] OTHER -> [ok |-> TRUE, kind |-> "Data"]

PacketKind_try_from(value) ==
  CASE value = 1 -> [ok |-> TRUE, kind |-> "Data"]
    [] value = 16 -> [ok |-> TRUE, kind |-> "KeyExchange"]
    [] value = 6 -> [ok |-> TRUE, kind |-> "P2P"]
    [] OTHER -> [ok |-> FALSE, kind |-> "None"]

\* ------------------------------------------------------------- PacketFlags
PacketFlags_all == <<65535, 65535>>
PacketFlags_empty == <<0, 0>>
PacketFlags_bits(flags) == flags
PacketFlags_from_bits_truncate(bits) ==
  [i \in 1..2 |-> BitAnd(bits[i], PacketFlags_all[i])]

\* ------------------------------------------------------------- body::Data
Data_encode(self, buf) ==
  put(put_u64(buf, UsizeAsU64(Len(self.data))), self.data)

Data_decode_unchecked(c) ==
  IF ~(remaining(c) >= 8) THEN Err("InsufficientData", c)
  ELSE LET l == get_u64(c)
           d == copy_to_bytes(l.cur, AsUsize(l.val))
       IN  Ok([variant |-> "Data", data |-> d.val], d.cur)

Data_decode_greedy(c) ==
  IF ~(remaining(c) >= 8) THEN Err("InsufficientData", c)
  ELSE LET l == get_u64(c)
       IN  IF ~(remaining(l.cur) >= AsUsize(l.val)) THEN Err("InsufficientData", l.cur)
           ELSE LET d == copy_to_bytes(l.cur, remaining(l.cur))
                IN  Ok([variant |-> "Data",
                        data |-> SubSeq(d.val, 1, AsUsize(l.val))], d.cur)

Data_decode(c) ==
  IF ~(remaining(c) >= 8) THEN Err("InsufficientData", c)
  ELSE LET l == get_u64(c)
           len == AsUsize(l.val)
       IN  IF ~(remaining(l.cur) >= len) THEN Err("InsufficientData", l.cur)
           ELSE LET d == copy_to_bytes(l.cur, len)
                IN  Ok([variant |-> "Data", data |-> d.val], d.cur)

Data_len(self) == Len(self.data)

\* ------------------------------------------------------------- body::KeyExchange
KeyExchange_encode(self, buf) ==
  LET b1 == put_u8(buf, self.typ)
      b2 == put_u32(b1, UsizeAsU32(Len(self.public_key)))
      b3 == put(b2, self.public_key)
      b4 == put_u32(b3, UsizeAsU32(Len(self.signature)))
  IN  put(b4, self.signature)

KeyExchange_decode_unchecked(c) ==
  IF ~(remaining(c) >= 1) THEN Err("InsufficientData", c)
  ELSE LET t == get_u8(c) IN
  IF ~(remaining(t.cur) >= 4) THEN Err("InsufficientData", t.cur)
  ELSE LET pl == get_u32(t.cur) IN
  IF ~(remaining(pl.cur) >= AsUsize(pl.val)) THEN Err("InsufficientData", pl.cur)
  ELSE LET pk == copy_to_bytes(pl.cur, AsUsize(pl.val))
           sl == get_u32(pk.cur)
           sg == copy_to_bytes(sl.cur, AsUsize(sl.val))
       IN  Ok([variant |-> "KeyExchange", typ |-> t.val,
               public_key |-> pk.val, signature |-> sg.val], sg.cur)

KeyExchange_decode(c) ==
  IF ~(remaining(c) >= 1) THEN Err("InsufficientData", c)
  ELSE LET t == get_u8(c) IN
  IF ~(remaining(t.cur) >= 4) THEN Err("InsufficientData", t.cur)
  ELSE LET pl == get_u32(t.cur) IN
  IF ~(remaining(pl.cur) >= AsUsize(pl.val)) THEN Err("InsufficientData", pl.cur)
  ELSE LET pk == copy_to_bytes(pl.cur, AsUsize(pl.val)) IN
  IF ~(remaining(pk.cur) >= 4) THEN Err("InsufficientData", pk.cur)
  ELSE LET sl == get_u32(pk.cur) IN
  IF ~(remaining(sl.cur) >= AsUsize(sl.val)) THEN Err("InsufficientData", sl.cur)
  ELSE LET sg == copy_to_bytes(sl.cur, AsUsize(sl.val))
       IN  Ok([variant |-> "KeyExchange", typ |-> t.val,
               public_key |-> pk.val, signature |-> sg.val], sg.cur)

KeyExchange_len(self) == Len(self.public_key) + Len(self.signature) + 2 * 4 + 1

\* ------------------------------------------------------------- body::Binding
Binding_encode(self, buf) ==
  LET b1 == put(buf, self.from)
      b2 == put_u32(b1, UsizeAsU32(Len(self.body)))
      b3 == put(b2, self.body)
      b4 == put_u32(b3, UsizeAsU32(Len(self.signature)))
  IN  put(b4, self.signature)

Binding_decode(c) ==
  IF ~(remaining(c) >= DeviceIDLength) THEN Err("InsufficientData", c)
  ELSE LET f == copy_to_slice(c, DeviceIDLength) IN
  IF ~(remaining(f.cur) >= 4) THEN Err("InsufficientData", f.cur)
  ELSE LET bl == get_u32(f.cur) IN
  IF ~(remaining(bl.cur) >= AsUsize(bl.val)) THEN Err("InsufficientData", bl.cur)
  ELSE LET bd == copy_to_bytes(bl.cur, AsUsize(bl.val)) IN
  IF ~(remaining(bd.cur) >= 4) THEN Err("InsufficientData", bd.cur)
  ELSE LET sl == get_u32(bd.cur) IN
  IF ~(remaining(sl.cur) >= AsUsize(sl.val)) THEN Err("InsufficientData", sl.cur)
  ELSE LET sg == copy_to_bytes(sl.cur, AsUsize(sl.val))
       IN  Ok([variant |-> "P2P", from |-> f.val,
               body |-> bd.val, signature |-> sg.val], sg.cur)

\* ------------------------------------------------------------- PacketHeader
PacketHeader_len_short == 8 + 1

PacketHeader_len == 8 + 1 + 2 * DeviceIDLength + 4

PacketHeader_ttl(self) == U64Shr61(self.packet_id) % 8

\* ------------------------------------------------------------- PacketBody
PacketBody_len(self) ==
  CASE self.variant = "Data" -> Data_len(self)
    [] self.variant = "KeyExchange" -> KeyExchange_len(self)
    [] self.variant = "P2P" -> 0

PacketBody_kind(body) ==
  CASE body.variant = "Data" -> "Data"
    [] body.variant = "KeyExchange" -> "KeyExchange"
    [] body.variant = "P2P" -> "P2P"

\* ------------------------------------------------------------- Packet
Packet_with_id_verbatim(id, from, to, body) ==
  [header |-> [packet_id |-> id,
               kind |-> PacketBody_kind(body),
               from |-> from,
               to |-> to,
               flags |-> PacketFlags_empty],
   body |-> body]

Packet_with_id(id, from, to, body) ==
  [header |-> [packet_id |-> U64Or(id, U64Shl61(DEFAULT_TTL)),
               kind |-> PacketBody_kind(body),
               from |-> from,
               to |-> to,
               flags |-> PacketFlags_empty],
   body |-> body]

\* PACKET_ID.fetch_add(1, Relaxed): the value read and the value stored
fetch_add_lost(counter, val) == [prev |-> counter, next |-> counter]

fetch_add(counter, val) == [prev |-> counter, next |-> U64WrappingAdd(counter, val)]

Packet_len(self) == PacketHeader_len + PacketBody_len(self.body)

Packet_encode_swapped(self, buf) ==
  LET b1 == put_u64(buf, self.header.packet_id)
      b2 == put_u8(b1, KindByte(self.header.kind))
      b3 == put(b2, self.header.to)
      b4 == put(b3, self.header.from)
      b5 == put_u32(b4, PacketFlags_bits(self.header.flags))
  IN  CASE self.body.variant = "Data" -> Data_encode(self.body, b5)
        [] self.body.variant = "KeyExchange" -> KeyExchange_encode(self.body, b5)
        [] self.body.variant = "P2P" -> Binding_encode(self.body, b5)

Packet_encode(self, buf) ==
  LET b1 == put_u64(buf, self.header.packet_id)
      b2 == put_u8(b1, KindByte(self.header.kind))
      b3 == put(b2, self.header.from)
      b4 == put(b3, self.header.to)
      b5 == put_u32(b4, PacketFlags_bits(self.header.flags))
  IN  CASE self.body.variant = "Data" -> Data_encode(self.body, b5)
        [] self.body.variant = "KeyExchange" -> KeyExchange_encode(self.body, b5)
        [] self.body.variant = "P2P" -> Binding_encode(self.body, b5)

\* BytesMut::with_capacity(self.len()), then encode: the capacity asked for
\* and the bytes written
Packet_encode_into_bytes(self) ==
  [capacity |-> Packet_len(self), bytes |-> Packet_encode(self, <<>>)]

Packet_decode(c) ==
  IF remaining(c) < PacketHeader_len THEN Err("InsufficientData", c)
  ELSE LET id == get_u64(c)
           kb == get_u8(id.cur)
           kind == PacketKind_try_from(kb.val)
       IN
  IF ~kind.ok THEN Err("UnknownKind", kb.cur)
  ELSE LET from == copy_to_slice(kb.cur, DeviceIDLength)
           to == copy_to_slice(from.cur, DeviceIDLength)
           fl == get_u32(to.cur)
           flags == PacketFlags_from_bits_truncate(fl.val)
           body == CASE kind.kind = "Data" -> Data_decode(fl.cur)
                     [] kind.kind = "KeyExchange" -> KeyExchange_decode(fl.cur)
                     [] kind.kind = "P2P" -> Binding_decode(fl.cur)
       IN
  IF body.status # "Ok" THEN Err(body.status, body.cur)
  ELSE Ok([header |-> [packet_id |-> id.val,
                       kind |-> kind.kind,
                       from |-> from.val,
                       to |-> to.val,
                       flags |-> flags],
           body |-> body.value], body.cur)

\* ------------------------------------------------------------- inputs
DeviceID(seed) == [i \in 1..DeviceIDLength |-> seed + i]
DeviceIDs == {DeviceID(160), DeviceID(176)}

Payload(n, seed) == [i \in 1..n |-> (seed + i) % 256]

DataBodies ==
  {[variant |-> "Data", data |-> Payload(n, 64)] : n \in 0..MaxLen}

KeyExchangeBodies ==
  {[variant |-> "KeyExchange", typ |-> t,
    public_key |-> Payload(n, 80), signature |-> Payload(m, 96)] :
     t \in {KEY_EXCHANGE_REQUEST, KEY_EXCHANGE_REPLY}, n \in 0..MaxLen, m \in 0..MaxLen}

BindingBodies ==
  {[variant |-> "P2P", from |-> f,
    body |-> Payload(n, 112), signature |-> Payload(m, 128)] :
     f \in DeviceIDs, n \in 0..MaxLen, m \in 0..MaxLen}

Bodies == DataBodies \cup KeyExchangeBodies \cup BindingBodies

\* ids handed to Packet::with_id: top three bits 000 and 101
CustomIds == {<<0, 0, 0, 42>>, <<40961, 2, 3, 4>>}

TrailBytes == {0, 255}
CorruptBytes == {0, 2, 255}
RawKinds == {0, 1, 2, 6, 16, 255}
RawFill == {0, 1, 255}

Threads == 1..NumThreads

\* ------------------------------------------------------------- state
VARIABLES
  PACKET_ID,  \* the process-wide sequence counter
  pc,         \* per caller of Packet::new: "idle", or "fetched" after fetch_add
  tid,        \* per caller of Packet::new: the local `id`
  issued,     \* packet_id of every packet Packet::new has returned, in order
  pkt,        \* the packet last constructed
  origin,     \* "none", "new" or "with_id": the constructor that built pkt
  arg_id,     \* the id with_id was called with
  buf,        \* the byte buffer handed to Packet::decode
  cap,        \* the capacity encode_into_bytes asked for
  mode,       \* what buf is: "empty", "encoded", "truncated", "trailing",
              \* "malformed" (one byte overwritten) or "raw"
  tail,       \* the bytes appended after the encoded packet
  result      \* outcome of Packet::decode on buf; status "none" before it ran

vars ==
  <<PACKET_ID, pc, tid, issued, pkt, origin, arg_id, buf, cap, mode, tail, result>>

ZeroU64 == <<0, 0, 0, 0>>
NoResult == [status |-> "none", packet |-> NoPacket, pos |-> 0]

Init ==
  /\ PACKET_ID = ZeroU64
  /\ pc = [t \in Threads |-> "idle"]
  /\ tid = [t \in Threads |-> ZeroU64]
  /\ issued = <<>>
  /\ pkt = NoPacket
  /\ origin = "none"
  /\ arg_id = ZeroU64
  /\ buf = <<>>
  /\ cap = 0
  /\ mode = "empty"
  /\ tail = <<>>
  /\ result = NoResult

\* a freshly constructed packet, with nothing encoded or decoded yet
Built(p, how, id) ==
  /\ pkt' = p
  /\ origin' = how
  /\ arg_id' = id
  /\ buf' = <<>>
  /\ cap' = 0
  /\ mode' = "empty"
  /\ tail' = <<>>
  /\ result' = NoResult

\* Packet::new, start to end.  A constructor overwrites everything the
\* buffer actions change, so taking it while a buffer is in flight reaches
\* no state that taking it before does not: it is taken with no buffer.
New(from, to, body) ==
  /\ mode = "empty"
  /\ AsUsize(PACKET_ID) < MaxCalls
  /\ LET fa == fetch_add(PACKET_ID, 1)
         p == Packet_with_id(fa.prev, from, to, body)
     IN  /\ PACKET_ID' = fa.next
         /\ issued' = Append(issued, p.header.packet_id)
         /\ Built(p, "new", fa.prev)
  /\ UNCHANGED <<pc, tid>>

\* Packet::new by caller t, first step: the atomic fetch_add
NewFetchAdd(t) ==
  /\ pc[t] = "idle"
  /\ AsUsize(PACKET_ID) < MaxCalls
  /\ LET fa == fetch_add(PACKET_ID, 1)
     IN  /\ PACKET_ID' = fa.next
         /\ tid' = [tid EXCEPT ![t] = fa.prev]
  /\ pc' = [pc EXCEPT ![t] = "fetched"]
  /\ UNCHANGED <<issued, pkt, origin, arg_id, buf, cap, mode, tail, result>>

\* Packet::new by caller t, second step: Self::with_id(id, from, to, body)
NewWithId(t, from, to, body) ==
  /\ pc[t] = "fetched"
  /\ LET p == Packet_with_id(tid[t], from, to, body)
     IN  /\ issued' = Append(issued, p.header.packet_id)
         /\ Built(p, "new", tid[t])
  /\ pc' = [pc EXCEPT ![t] = "idle"]
  /\ tid' = [tid EXCEPT ![t] = ZeroU64]
  /\ UNCHANGED PACKET_ID

\* Packet::with_id
WithId(id, from, to, body) ==
  /\ mode = "empty"
  /\ Built(Packet_with_id(id, from, to, body), "with_id", id)
  /\ UNCHANGED <<PACKET_ID, pc, tid, issued>>

\* Packet::encode_into_bytes
Encode ==
  /\ origin # "none"
  /\ mode = "empty"
  /\ LET e == Packet_encode_into_bytes(pkt)
     IN  /\ buf' = e.bytes
         /\ cap' = e.capacity
  /\ mode' = "encoded"
  /\ result' = NoResult
  /\ UNCHANGED <<PACKET_ID, pc, tid, issued, pkt, origin, arg_id, tail>>

\* the transport delivers the encoded packet one byte short
TruncateLast ==
  /\ mode \in {"encoded", "truncated"}
  /\ Len(buf) > 0
  /\ buf' = SubSeq(buf, 1, Len(buf) - 1)
  /\ mode' = "truncated"
  /\ result' = NoResult
  /\ UNCHANGED <<PACKET_ID, pc, tid, issued, pkt, origin, arg_id, cap, tail>>

\* the transport delivers one more byte after the encoded packet
Trailing(b) ==
  /\ mode \in {"encoded", "trailing"}
  /\ Len(tail) < MaxTrail
  /\ buf' = Append(buf, b)
  /\ tail' = Append(tail, b)
  /\ mode' = "trailing"
  /\ result' = NoResult
  /\ UNCHANGED <<PACKET_ID, pc, tid, issued, pkt, origin, arg_id, cap>>

\* one byte of the encoded packet is overwritten
Overwrite(i, b) ==
  /\ mode = "encoded"
  /\ i \in 1..Len(buf)
  /\ b # buf[i]
  /\ buf' = [buf EXCEPT ![i] = b]
  /\ mode' = "malformed"
  /\ result' = NoResult
  /\ UNCHANGED <<PACKET_ID, pc, tid, issued, pkt, origin, arg_id, cap, tail>>

\* bytes that no local packet was encoded into: n bytes of f, with k at the
\* offset of the kind byte
Receive(n, k, f) ==
  /\ mode = "empty"
  /\ buf' = [i \in 1..n |-> IF i = 9 THEN k ELSE f]
  /\ mode' = "raw"
  /\ pkt' = NoPacket
  /\ origin' = "none"
  /\ arg_id' = ZeroU64
  /\ cap' = 0
  /\ tail' = <<>>
  /\ result' = NoResult
  /\ UNCHANGED <<PACKET_ID, pc, tid, issued>>

\* Packet::decode on a cursor over buf
Decode ==
  /\ result.status = "none"
  /\ LET r == Packet_decode(Cursor(buf))
     IN  result' = [status |-> IF r.cur.panic THEN "panic" ELSE r.status,
                    packet |-> IF r.status = "Ok" THEN r.value ELSE NoPacket,
                    pos |-> r.cur.pos]
  /\ UNCHANGED <<PACKET_ID, pc, tid, issued, pkt, origin, arg_id, buf, cap, mode, tail>>

Next ==
  \/ \E from \in DeviceIDs : \E to \in DeviceIDs \ {from}, body \in Bodies :
       New(from, to, body)
  \/ \E id \in CustomIds, from \in DeviceIDs : \E to \in DeviceIDs \ {from}, body \in Bodies :
       WithId(id, from, to, body)
  \/ Encode
  \/ TruncateLast
  \/ \E b \in TrailBytes : Trailing(b)
  \/ \E i \in 1..Len(buf), b \in CorruptBytes : Overwrite(i, b)
  \/ \E n \in 0..(PacketHeader_len + MaxRawBody), k \in RawKinds, f \in RawFill :
       Receive(n, k, f)
  \/ Decode

Spec == Init /\ [][Next]_vars

\* concurrent callers of Packet::new
NextNew ==
  \/ \E t \in Threads : NewFetchAdd(t)
  \/ \E t \in Threads, from \in DeviceIDs : \E to \in DeviceIDs \ {from}, body \in Bodies :
       NewWithId(t, from, to, body)

SpecNew == Init /\ [][NextNew]_vars

\* ------------------------------------------------------------- claims
Decoded == result.status # "none"

KnownKindBytes == {1, 6, 16}

\* the fixed header length as the specification states it
FixedHeaderLength == 8 + 1 + 2 * DeviceIDLength + 4

\* the bytes of buf the cursor has not consumed
Unread == SubSeq(buf, result.pos + 1, Len(buf))

\* the low 61 bits of a packet_id
Low61(x) == <<x[1] % 8192, x[2], x[3], x[4]>>

\* C1: decoding the bytes produced by encoding a packet built by Packet::new
\* or Packet::with_id succeeds and yields a packet equal to it, field for field.
C1_RoundTrip ==
  (Decoded /\ mode = "encoded") =>
    (result.status = "Ok" /\ result.packet = pkt)

C1_Witness ==
  /\ Decoded
  /\ mode = "encoded"
  /\ origin = "with_id"
  /\ pkt.body.variant = "P2P"
  /\ Len(pkt.body.body) > 0
  /\ result.packet.body = pkt.body

\* C2: decoding an encoded packet cut at any offset below its length returns
\* InsufficientData, never UnknownKind and never a packet.
C2_Truncated ==
  (Decoded /\ mode = "truncated") => result.status = "InsufficientData"

C2_Witness ==
  /\ Decoded
  /\ mode = "truncated"
  /\ pkt.body.variant = "Data"
  /\ Len(pkt.body.data) > 0
  /\ Len(buf) = FixedHeaderLength + 8
  /\ result.status = "InsufficientData"

\* C3: on a buffer of at least the header length whose kind byte (offset 8)
\* is none of 0x01, 0x06, 0x10, decode returns UnknownKind having consumed
\* only the packet_id and the kind byte: no body byte is read.
C3_UnknownKind ==
  (Decoded /\ Len(buf) >= FixedHeaderLength /\ buf[9] \notin KnownKindBytes) =>
    (result.status = "UnknownKind" /\ result.pos = 8 + 1)

C3_Witness ==
  /\ Decoded
  /\ mode = "malformed"
  /\ buf[9] = 2
  /\ result.status = "UnknownKind"

\* C4 as stated: ttl() of a packet built by Packet::new is 7, and ttl() of a
\* packet built by Packet::with_id(id, ...) is (id >> 61) & 0b111.
C4_TtlVerbatim ==
  /\ origin = "new" => PacketHeader_ttl(pkt.header) = 7
  /\ origin = "with_id" => PacketHeader_ttl(pkt.header) = U64Shr61(arg_id) % 8

\* C4 as amended: ttl() of a packet built by Packet::new or by
\* Packet::with_id(id, ...) is DEFAULT_TTL = 7 for every id, and the low 61
\* bits of packet_id are the low 61 bits of id.
C4_TtlDefault ==
  origin \in {"new", "with_id"} =>
    /\ PacketHeader_ttl(pkt.header) = DEFAULT_TTL
    /\ Low61(pkt.header.packet_id) = Low61(arg_id)

C4_Witness ==
  /\ origin = "with_id"
  /\ U64Shr61(arg_id) % 8 = 5
  /\ PacketHeader_ttl(pkt.header) = 7

\* C5: the sequence values (low 61 bits of packet_id) of the packets returned
\* by Packet::new, in any interleaving of its callers, are pairwise distinct;
\* every value the counter has passed is held by exactly one call, finished
\* or in flight, and none is lost.
Fetched == {t \in Threads : pc[t] = "fetched"}
IssuedSeqs == {Low61(issued[i]) : i \in 1..Len(issued)}
HeldSeqs == {Low61(tid[t]) : t \in Fetched}

C5_DistinctSequence ==
  /\ Cardinality(IssuedSeqs) = Len(issued)
  /\ Cardinality(HeldSeqs) = Cardinality(Fetched)
  /\ IssuedSeqs \cap HeldSeqs = {}
  /\ IssuedSeqs \cup HeldSeqs = {UsizeAsU64(n) : n \in 0..(AsUsize(PACKET_ID) - 1)}

C5_Witness ==
  /\ Len(issued) = 2
  /\ Low61(issued[1]) = UsizeAsU64(1)
  /\ Low61(issued[2]) = UsizeAsU64(0)

\* C6: the body length operation returns the serialized size of the body:
\* identifier length + 8 + body.len() + signature.len() for a Binding,
\* 8 + data.len() for a Data.
C6_BodyLen ==
  origin \in {"new", "with_id"} =>
    /\ pkt.body.variant = "P2P" =>
         PacketBody_len(pkt.body) =
           DeviceIDLength + 8 + Len(pkt.body.body) + Len(pkt.body.signature)
    /\ pkt.body.variant = "Data" =>
         PacketBody_len(pkt.body) = 8 + Len(pkt.body.data)

\* C7: the number of bytes encode_into_bytes writes equals Packet::len(), the
\* capacity the buffer was created with, which is the header length plus the
\* body length.
C7_EncodedLen ==
  mode = "encoded" =>
    /\ Len(buf) = cap
    /\ cap = FixedHeaderLength + PacketBody_len(pkt.body)

\* C8: Packet::decode on any bytes ends with a packet, InsufficientData or
\* UnknownKind: no read asks the cursor for more bytes than remain.
C8_NoPanic ==
  Decoded => result.status \in {"Ok", "InsufficientData", "UnknownKind"}

C8_Witness ==
  /\ Decoded
  /\ mode = "malformed"
  /\ result.pos > FixedHeaderLength
  /\ result.status = "InsufficientData"

\* C9: decoding an encoded packet followed by trailing bytes succeeds with a
\* packet equal to the encoded one, consumes exactly the encoded length and
\* leaves the trailing bytes unread.
C9_Trailing ==
  (Decoded /\ mode = "trailing") =>
    /\ result.status = "Ok"
    /\ result.packet = pkt
    /\ result.pos = Len(buf) - Len(tail)
    /\ Unread = tail

C9_Witness ==
  /\ Decoded
  /\ mode = "trailing"
  /\ Len(tail) = MaxTrail
  /\ pkt.body.variant = "Data"
  /\ result.status = "Ok"

\* C10: on a buffer shorter than the header length decode returns
\* InsufficientData without consuming a byte, whatever the bytes are, an
\* unrecognized kind byte at offset 8 included.
C10_ShortHeader ==
  (Decoded /\ Len(buf) < FixedHeaderLength) =>
    (result.status = "InsufficientData" /\ result.pos = 0)

C10_Witness ==
  /\ Decoded
  /\ Len(buf) < FixedHeaderLength
  /\ Len(buf) > 8 + 1
  /\ buf[9] \notin KnownKindBytes
  /\ result.status = "InsufficientData"

====
